---- MODULE Spec2Model ----
(***************************************************************************)
(* A model of src/model.py: the graph convolution layer GCN, the           *)
(* GCNencoder / GCNdecoder stacks, the Discriminator and the Teacher /     *)
(* Student networks.                                                       *)
(*                                                                         *)
(* Tensors.  A matrix is a sequence of rows, a row a sequence of numbers.  *)
(* A number is a finite float32 value written as an integer count of some  *)
(* power-of-two unit, so float32 arithmetic on it is integer arithmetic    *)
(* followed by rounding to a 24-bit significand (Fl).  Overflow to         *)
(* infinity, NaN and subnormals are outside the model.  Within the bounds  *)
(* below every product and partial sum of a matrix product is below 2^24,  *)
(* so every accumulation order of torch.mm gives the same entries.         *)
(***************************************************************************)
EXTENDS Integers, Sequences, FiniteSets, TLC

VARIABLES
    gcn,      \* a GCN layer
    teacher,  \* a Teacher network
    student,  \* a Student network
    disc,     \* a Discriminator
    x,        \* the node-feature matrix handed to forward
    adj,      \* the adjacency matrix handed to forward
    ret       \* the last forward call: the module's mode and the generator's state
              \* when it ran, and what it returned

vars == <<gcn, teacher, student, disc, x, adj, ret>>

(***************************************************************************)
(* Bounds of the model.                                                    *)
(***************************************************************************)
MaxN == 2
MaxF == 2
MaxSeed == 3
MaxGCNN == 4
MaxGCNF == 3

(***************************************************************************)
(* Program constants.                                                      *)
(***************************************************************************)
FloatPrecision == 24
Hidden1 == 32
Hidden2 == 16

Big == 2 ^ FloatPrecision

RECURSIVE Ulp(_)
Ulp(a) == IF a < Big THEN 1 ELSE 2 * Ulp(a \div 2)

RoundTo(a, q) ==
    LET lo == (a \div q) * q
        r  == a - lo
    IN  IF 2 * r < q THEN lo
        ELSE IF 2 * r > q THEN lo + q
        ELSE IF (lo \div q) % 2 = 0 THEN lo ELSE lo + q

\* float32 rounding (round to nearest, ties to even) of an exact result.
Fl(v) ==
    IF -Big < v /\ v < Big THEN v
    ELSE IF v < 0 THEN -RoundTo(-v, Ulp(-v)) ELSE RoundTo(v, Ulp(v))

Rows(M) == Len(M)
Cols(M) == IF Len(M) = 0 THEN 0 ELSE Len(M[1])

\* v named once: F applied to the value of v, v being evaluated a single time
With(v, F(_)) == CHOOSE r \in {F(h) : h \in {v}} : TRUE

\* the float32 sum over l in 1..k of P[i][l] * Q[l][j]
RECURSIVE DotUpTo(_, _, _, _, _)
DotUpTo(P, i, Q, j, k) ==
    IF k = 0 THEN 0
    ELSE Fl(DotUpTo(P, i, Q, j, k - 1) + Fl(P[i][k] * Q[k][j]))

\* torch.mm / torch.spmm on operands whose inner dimensions agree.
MatMul(P, Q) ==
    [i \in 1..Rows(P) |->
        [j \in 1..Cols(Q) |-> DotUpTo(P, i, Q, j, Rows(Q))] \o <<>>] \o <<>>

\* AddBias with the broadcast gone wrong: the first bias element is added everywhere.
AddBiasFirstOnly(M, b) ==
    [i \in 1..Rows(M) |-> [j \in 1..Cols(M) |-> Fl(M[i][j] + b[1])] \o <<>>] \o <<>>

\* output + self.bias: the bias vector is broadcast over the rows.
AddBias(M, b) ==
    [i \in 1..Rows(M) |-> [j \in 1..Cols(M) |-> Fl(M[i][j] + b[j])] \o <<>>] \o <<>>

\* self.bias is None (register_parameter('bias', None))
NoBias == <<>>

Raised == [ok |-> FALSE, support |-> <<>>, val |-> <<>>]

\* GCN.forward with every node given a self-loop: support + adj * support.
GCNforwardSelfLoop(layer, input, a) ==
    IF Cols(input) # Rows(layer.weight) THEN Raised
    ELSE With(MatMul(input, layer.weight), LAMBDA support :
         IF Cols(a) # Rows(support) THEN Raised
         ELSE With(MatMul(a, support), LAMBDA prop :
              With([i \in 1..Rows(prop) |->
                       [j \in 1..Cols(prop) |-> Fl(prop[i][j] + support[i][j])]],
                   LAMBDA output :
              IF layer.bias # NoBias
              THEN [ok |-> TRUE, support |-> support, val |-> AddBias(output, layer.bias)]
              ELSE [ok |-> TRUE, support |-> support, val |-> output])))

\* GCN.forward with the bias added before the propagation: adj * (input * W + b).
GCNforwardBiasFirst(layer, input, a) ==
    IF Cols(input) # Rows(layer.weight) THEN Raised
    ELSE With(MatMul(input, layer.weight), LAMBDA support :
         IF Cols(a) # Rows(support) THEN Raised
         ELSE IF layer.bias # NoBias
              THEN With(AddBias(support, layer.bias), LAMBDA biased :
                        [ok |-> TRUE, support |-> support, val |-> MatMul(a, biased)])
              ELSE [ok |-> TRUE, support |-> support, val |-> MatMul(a, support)])

\* GCN.forward(input, adj); torch.mm and torch.spmm raise on a dimension mismatch
GCNforward(layer, input, a) ==
    IF Cols(input) # Rows(layer.weight) THEN Raised
    ELSE With(MatMul(input, layer.weight), LAMBDA support :
         IF Cols(a) # Rows(support) THEN Raised
         ELSE With(MatMul(a, support), LAMBDA output :
              IF layer.bias # NoBias
              THEN [ok |-> TRUE, support |-> support, val |-> AddBias(output, layer.bias)]
              ELSE [ok |-> TRUE, support |-> support, val |-> output]))

\* F.relu
Relu(M) ==
    [i \in 1..Rows(M) |->
        [j \in 1..Cols(M) |-> IF M[i][j] > 0 THEN M[i][j] ELSE 0] \o <<>>] \o <<>>

\* The mask the random generator draws in state s: element (i, j) is kept or zeroed.
Keep(s, i, j) == (s \div (2 ^ ((i + j) % 2))) % 2 = 1

\* F.dropout called without training=self.training: it drops in inference mode too.
DropoutAlways(v, p, training, s) ==
    IF p = 0 THEN v
    ELSE [i \in 1..Rows(v) |->
            [j \in 1..Cols(v) |->
                IF Keep(s, i, j) THEN Fl((v[i][j] * 100) \div (100 - p)) ELSE 0]
            \o <<>>] \o <<>>

\* F.dropout(v, p, training): the identity outside training mode and for p = 0; in
\* training mode each element is zeroed with probability p and the others are scaled
\* by 1 / (1 - p).  p is held in percent (50 and 75 scale exactly: by 2 and 4).
Dropout(v, p, training, s) ==
    IF ~training \/ p = 0 THEN v
    ELSE [i \in 1..Rows(v) |->
            [j \in 1..Cols(v) |->
                IF Keep(s, i, j) THEN Fl((v[i][j] * 100) \div (100 - p)) ELSE 0]
            \o <<>>] \o <<>>

\* the generator's state after one dropout call
Advance(p, training, s) ==
    IF ~training \/ p = 0 THEN s ELSE (s + 1) % (MaxSeed + 1)

RaisedNet(s) == [ok |-> FALSE, val |-> <<>>, rng |-> s]

\* GCNencoder.forward(x, adj), the generator being in state s
GCNencoderForward(enc, v, a, s) ==
    With(GCNforward(enc.gc1, v, a), LAMBDA h1 :
    IF ~h1.ok THEN RaisedNet(s)
    ELSE With(Relu(h1.val), LAMBDA r1 :
         With(Dropout(r1, enc.dropout, enc.training, s), LAMBDA x1 :
         With(GCNforward(enc.gc2, x1, a), LAMBDA h2 :
         IF ~h2.ok THEN RaisedNet(Advance(enc.dropout, enc.training, s))
         ELSE With(Relu(h2.val), LAMBDA r2 :
              [ok |-> TRUE,
               val |-> Dropout(r2, enc.dropout, enc.training,
                               Advance(enc.dropout, enc.training, s)),
               rng |-> Advance(enc.dropout, enc.training,
                               Advance(enc.dropout, enc.training, s))])))))

\* GCNdecoder.forward(x, adj)
GCNdecoderForward(dec, v, a, s) ==
    With(GCNforward(dec.gc1, v, a), LAMBDA h1 :
    IF ~h1.ok THEN RaisedNet(s)
    ELSE With(Relu(h1.val), LAMBDA r1 :
         With(Dropout(r1, dec.dropout, dec.training, s), LAMBDA x1 :
         With(GCNforward(dec.gc2, x1, a), LAMBDA h2 :
         IF ~h2.ok THEN RaisedNet(Advance(dec.dropout, dec.training, s))
         ELSE With(Relu(h2.val), LAMBDA r2 :
              [ok |-> TRUE,
               val |-> Dropout(r2, dec.dropout, dec.training,
                               Advance(dec.dropout, dec.training, s)),
               rng |-> Advance(dec.dropout, dec.training,
                               Advance(dec.dropout, dec.training, s))])))))

RaisedPair == [ok |-> FALSE, emb |-> <<>>, out |-> <<>>]

\* Teacher.forward with the decoder run on the input x in place of the embedding.
TeacherForwardDecodesInput(net, v, a, s) ==
    With(GCNencoderForward(net.encoder, v, a, s), LAMBDA embedding :
    IF ~embedding.ok THEN RaisedPair
    ELSE With(GCNdecoderForward(net.decoder, v, a, embedding.rng),
              LAMBDA super_resolved_matrix :
         IF ~super_resolved_matrix.ok THEN RaisedPair
         ELSE [ok |-> TRUE, emb |-> embedding.val, out |-> super_resolved_matrix.val]))

\* Teacher.forward(x, adj)
TeacherForward(net, v, a, s) ==
    With(GCNencoderForward(net.encoder, v, a, s), LAMBDA embedding :
    IF ~embedding.ok THEN RaisedPair
    ELSE With(GCNdecoderForward(net.decoder, embedding.val, a, embedding.rng),
              LAMBDA super_resolved_matrix :
         IF ~super_resolved_matrix.ok THEN RaisedPair
         ELSE [ok |-> TRUE, emb |-> embedding.val, out |-> super_resolved_matrix.val]))

\* Student.forward returning the decoder's result in both places.
StudentForwardNoEmbedding(net, v, a, s) ==
    With(GCNencoderForward(net.encoder, v, a, s), LAMBDA embedding :
    IF ~embedding.ok THEN RaisedPair
    ELSE With(GCNdecoderForward(net.decoder, embedding.val, a, embedding.rng),
              LAMBDA super_resolved_matrix :
         IF ~super_resolved_matrix.ok THEN RaisedPair
         ELSE [ok |-> TRUE, emb |-> super_resolved_matrix.val,
               out |-> super_resolved_matrix.val]))

\* Student.forward(x, adj)
StudentForward(net, v, a, s) ==
    With(GCNencoderForward(net.encoder, v, a, s), LAMBDA embedding :
    IF ~embedding.ok THEN RaisedPair
    ELSE With(GCNdecoderForward(net.decoder, embedding.val, a, embedding.rng),
              LAMBDA super_resolved_matrix :
         IF ~super_resolved_matrix.ok THEN RaisedPair
         ELSE [ok |-> TRUE, emb |-> embedding.val, out |-> super_resolved_matrix.val]))

\* a.view(-1): the elements of a in row-major order, however many there are.
ViewFlatten(a, n) ==
    [ok |-> TRUE,
     val |-> [k \in 1..(Rows(a) * Cols(a)) |->
                 a[((k - 1) \div Cols(a)) + 1][((k - 1) % Cols(a)) + 1]] \o <<>>]

\* a.view(n): the elements of a in row-major order, when there are exactly n of them
View(a, n) ==
    IF Rows(a) * Cols(a) # n THEN [ok |-> FALSE, val |-> <<>>]
    ELSE [ok |-> TRUE,
          val |-> [k \in 1..n |-> a[((k - 1) \div Cols(a)) + 1][((k - 1) % Cols(a)) + 1]]
                  \o <<>>]

\* F.sigmoid and F.softmax(dim=0) are kept as terms over the vector they are applied to.
Sigmoid(v) == [k \in 1..Len(v) |-> [fn |-> "sigmoid", of |-> v[k]]] \o <<>>
Softmax(v) == [k \in 1..Len(v) |-> [fn |-> "softmax", of |-> v[k], over |-> v]] \o <<>>

RaisedDisc == [ok |-> FALSE, sig |-> <<>>, soft |-> <<>>]

\* Discriminator.forward(x, adj)
DiscriminatorForward(d, v, a, s) ==
    With(GCNforward(d.gc1, v, a), LAMBDA h1 :
    IF ~h1.ok THEN RaisedDisc
    ELSE With(Relu(h1.val), LAMBDA r1 :
         With(Dropout(r1, d.dropout, d.training, s), LAMBDA x1 :
         With(GCNforward(d.gc2, x1, a), LAMBDA h2 :
         IF ~h2.ok THEN RaisedDisc
         ELSE With(Relu(h2.val), LAMBDA r2 :
              With(Dropout(r2, d.dropout, d.training,
                           Advance(d.dropout, d.training, s)), LAMBDA x2 :
              With(GCNforward(d.gc3, x2, a), LAMBDA h3 :
              IF ~h3.ok THEN RaisedDisc
              ELSE With(View(h3.val, Rows(h3.val)), LAMBDA xv :
                   IF ~xv.ok THEN RaisedDisc
                   ELSE [ok |-> TRUE, sig |-> Sigmoid(xv.val),
                         soft |-> Softmax(xv.val)]))))))))

(***************************************************************************)
(* Input pools.  Matrices are generated from a few coefficient tuples, so  *)
(* that the pools grow gently with the dimensions.                         *)
(***************************************************************************)
Lin(n, m, c) == [i \in 1..n |-> [j \in 1..m |-> c[1] * i + c[2] * j + c[3]]]

XCoefs == {<<0, 0, 1>>, <<1, -1, 0>>, <<-2, 1, 2>>}

Feats(n, f, coefs) == {Lin(n, f, c) : c \in coefs}

AdjKinds == {"zero", "eye", "full", "path", "weighted"}

AdjOf(n, kind) ==
    [i \in 1..n |-> [j \in 1..n |->
        CASE kind = "zero" -> 0
          [] kind = "eye" -> IF i = j THEN 1 ELSE 0
          [] kind = "full" -> 1
          [] kind = "path" -> IF j = i + 1 THEN 1 ELSE 0
          [] OTHER -> i - j + 1]]

Adjs(n, kinds) == {AdjOf(n, k) : k \in kinds}

(***************************************************************************)
(* Construction.  reset_parameters() fills weight and bias with uniform    *)
(* draws; a draw d = <<d1, d2, d3, d4>> stands for the generator's state   *)
(* and determines the values: weights in {-1, 0, 1}, bias a multiple of d4.*)
(***************************************************************************)
GCNDraws == {<<1, 1, 0, -1>>, <<1, 2, 1, 2>>, <<2, 1, 2, Big>>}
NetDraws == {<<1, 1, 0, -1>>, <<1, 2, 1, 1>>}
DropRates == {0, 50}
NetDims == {<<2, 1, 2, 2, 1>>, <<1, 2, 1, 1, 2>>}

\* self.weight.data.uniform_(-stdv, stdv)
WeightOf(fin, fout, d) ==
    [i \in 1..fin |-> [j \in 1..fout |-> ((d[1] * i + d[2] * j + d[3]) % 3) - 1]]

\* self.bias.data.uniform_(-stdv, stdv)
BiasOf(fout, d) == [j \in 1..fout |-> d[4] * j]

\* GCN.__init__(in_features, out_features, bias)
NewGCN(in_features, out_features, bias, d) ==
    [in_features |-> in_features, out_features |-> out_features,
     weight |-> WeightOf(in_features, out_features, d),
     bias |-> IF bias THEN BiasOf(out_features, d) ELSE NoBias]

\* the draw the generator makes after draw d
NextDraw(d) == <<d[1], d[2], d[3] + 1, d[4]>>

\* GCNencoder.__init__(nfeat, nhid, nout, dropout); a new module is in training mode
NewGCNencoder(nfeat, nhid, nout, dropout, d) ==
    [dropout |-> dropout, training |-> TRUE,
     gc1 |-> NewGCN(nfeat, nhid, TRUE, d),
     gc2 |-> NewGCN(nhid, nout, TRUE, NextDraw(d))]

\* GCNdecoder.__init__ with the second layer built nhid -> nhid.
NewGCNdecoderSquare(nfeat, nhid, nout, dropout, d) ==
    [dropout |-> dropout, training |-> TRUE,
     gc1 |-> NewGCN(nfeat, nhid, TRUE, d),
     gc2 |-> NewGCN(nhid, nhid, TRUE, NextDraw(d))]

\* GCNdecoder.__init__(nfeat, nhid, nout, dropout)
NewGCNdecoder(nfeat, nhid, nout, dropout, d) ==
    [dropout |-> dropout, training |-> TRUE,
     gc1 |-> NewGCN(nfeat, nhid, TRUE, d),
     gc2 |-> NewGCN(nhid, nout, TRUE, NextDraw(d))]

\* Teacher.__init__(nfeat, nhid1, nhid2, nhid3, nhid4, dropout)
NewTeacher(nfeat, nhid1, nhid2, nhid3, nhid4, dropout, d) ==
    [dropout |-> dropout, training |-> TRUE,
     encoder |-> NewGCNencoder(nfeat, nhid1, nhid2, dropout, d),
     decoder |-> NewGCNdecoder(nhid2, nhid3, nhid4, dropout, NextDraw(NextDraw(d)))]

\* Student.__init__(nfeat, nhid1, nhid2, nhid3, nhid4, dropout)
NewStudent(nfeat, nhid1, nhid2, nhid3, nhid4, dropout, d) ==
    [dropout |-> dropout, training |-> TRUE,
     encoder |-> NewGCNencoder(nfeat, nhid1, nhid2, dropout, d),
     decoder |-> NewGCNdecoder(nhid2, nhid3, nhid4, dropout, NextDraw(NextDraw(d)))]

\* Discriminator.__init__(input_size, output_size, dropout)
NewDiscriminator(input_size, output_size, dropout, d) ==
    [dropout |-> dropout, training |-> TRUE,
     gc1 |-> NewGCN(input_size, Hidden1, TRUE, d),
     gc2 |-> NewGCN(Hidden1, Hidden2, TRUE, NextDraw(d)),
     gc3 |-> NewGCN(Hidden2, output_size, TRUE, NextDraw(NextDraw(d)))]

\* nn.Module.train(mode) / eval() on a Teacher or Student: sets the flag on the
\* module and on its children
SetTraining(net, mode) ==
    [net EXCEPT !.training = mode, !.encoder.training = mode, !.decoder.training = mode]

NoRet == [op |-> "none", training |-> FALSE, rng0 |-> 0, res |-> [ok |-> TRUE]]

NoNet == [none |-> TRUE]

\* the inputs of the forward calls: n nodes, f features per node
Inputs(n, f, coefs, kinds) ==
    /\ x \in Feats(n, f, coefs)
    /\ adj \in Adjs(n, kinds)
    /\ ret = NoRet

\* the states the random generator may be in when forward is called; the state
\* matters only to a module that is in training mode with a dropout rate above 0
SeedsFor(m) == IF m.training /\ m.dropout # 0 THEN 0..MaxSeed ELSE {0}

(***************************************************************************)
(* The operations.                                                         *)
(***************************************************************************)
\* gcn(x, adj) with the bias added in place into the parameter (self.bias += ...).
GCNCallInPlace ==
    /\ ret' = [op |-> "GCN.forward", training |-> FALSE, rng0 |-> 0, res |-> GCNforward(gcn, x, adj)]
    /\ gcn' = IF gcn.bias # NoBias
              THEN [gcn EXCEPT !.bias = [j \in 1..Len(@) |-> @[j] + 1]]
              ELSE [gcn EXCEPT !.bias = [j \in 1..gcn.out_features |-> 0]]
    /\ UNCHANGED <<teacher, student, disc, x, adj>>

\* r = gcn(x, adj)
GCNCall ==
    /\ ret' = [op |-> "GCN.forward", training |-> FALSE, rng0 |-> 0, res |-> GCNforward(gcn, x, adj)]
    /\ UNCHANGED <<gcn, teacher, student, disc, x, adj>>

\* emb, out = teacher(x, adj)
TeacherCall ==
    \E s \in SeedsFor(teacher) :
        /\ ret' = [op |-> "Teacher.forward", training |-> teacher.training, rng0 |-> s,
                   res |-> TeacherForward(teacher, x, adj, s)]
        /\ UNCHANGED <<gcn, teacher, student, disc, x, adj>>

\* emb, out = student(x, adj)
StudentCall ==
    \E s \in SeedsFor(student) :
        /\ ret' = [op |-> "Student.forward", training |-> student.training, rng0 |-> s,
                   res |-> StudentForward(student, x, adj, s)]
        /\ UNCHANGED <<gcn, teacher, student, disc, x, adj>>

\* sig, soft = disc(x, adj)
DiscriminatorCall ==
    \E s \in SeedsFor(disc) :
        /\ ret' = [op |-> "Discriminator.forward", training |-> disc.training,
               rng0 |-> s,
                   res |-> DiscriminatorForward(disc, x, adj, s)]
        /\ UNCHANGED <<gcn, teacher, student, disc, x, adj>>

\* teacher.train(mode)
TeacherTrain ==
    \E mode \in BOOLEAN :
        /\ teacher' = SetTraining(teacher, mode)
        /\ UNCHANGED <<gcn, student, disc, x, adj, ret>>

\* student.train(mode)
StudentTrain ==
    \E mode \in BOOLEAN :
        /\ student' = SetTraining(student, mode)
        /\ UNCHANGED <<gcn, teacher, disc, x, adj, ret>>

\* disc.train(mode)
DiscriminatorTrain ==
    \E mode \in BOOLEAN :
        /\ disc' = [disc EXCEPT !.training = mode]
        /\ UNCHANGED <<gcn, teacher, student, x, adj, ret>>

(***************************************************************************)
(* A GCN layer on its own.                                                 *)
(***************************************************************************)
InitGCN ==
    /\ \E fin \in 1..MaxGCNF, fout \in 1..MaxGCNF, bias \in BOOLEAN, d \in GCNDraws :
          gcn = NewGCN(fin, fout, bias, d)
    /\ teacher = NoNet
    /\ student = NoNet
    /\ disc = NoNet
    /\ \E n \in 1..MaxGCNN, f \in 1..MaxGCNF : Inputs(n, f, XCoefs, AdjKinds)

NextGCN == GCNCall

SpecGCN == InitGCN /\ [][NextGCN]_vars

(***************************************************************************)
(* A Teacher and a Student built with the same dropout rate.               *)
(***************************************************************************)
NetXCoefs == {<<0, 0, 1>>, <<-2, 1, 2>>}
NetAdjKinds == {"eye", "path", "weighted"}

InitNet ==
    /\ \E p \in DropRates :
          /\ \E dm \in NetDims, d \in NetDraws :
                teacher = NewTeacher(dm[1], dm[2], dm[3], dm[4], dm[5], p, d)
          /\ \E dm \in NetDims, d \in NetDraws :
                student = NewStudent(dm[1], dm[2], dm[3], dm[4], dm[5], p, d)
    /\ gcn = NoNet
    /\ disc = NoNet
    /\ \E n \in 1..MaxN, f \in {dm[1] : dm \in NetDims} :
          Inputs(n, f, NetXCoefs, NetAdjKinds)

NextNet == TeacherCall \/ StudentCall \/ TeacherTrain \/ StudentTrain

SpecNet == InitNet /\ [][NextNet]_vars

(***************************************************************************)
(* A Discriminator.                                                        *)
(***************************************************************************)
DiscDraws == {<<1, 1, 0, -1>>}
DiscXCoefs == {<<-2, 1, 2>>}
DiscAdjKinds == {"eye", "path"}

InitDisc ==
    /\ \E input_size \in 1..MaxF, output_size \in 1..MaxF, p \in DropRates, d \in DiscDraws :
          disc = NewDiscriminator(input_size, output_size, p, d)
    /\ gcn = NoNet
    /\ teacher = NoNet
    /\ student = NoNet
    /\ \E n \in 1..MaxN, f \in 1..MaxF : Inputs(n, f, DiscXCoefs, DiscAdjKinds)

NextDisc == DiscriminatorCall \/ DiscriminatorTrain

SpecDisc == InitDisc /\ [][NextDisc]_vars

(***************************************************************************)
(* All four modules side by side, called in any order.                     *)
(***************************************************************************)
AllDims == <<2, 1, 2, 2, 1>>
AllDraw == <<1, 2, 1, 1>>

Init ==
    /\ \E bias \in BOOLEAN : gcn = NewGCN(AllDims[1], AllDims[2], bias, AllDraw)
    /\ \E p \in DropRates :
          /\ teacher = NewTeacher(AllDims[1], AllDims[2], AllDims[3], AllDims[4],
                                  AllDims[5], p, AllDraw)
          /\ student = NewStudent(AllDims[1], AllDims[2], AllDims[3], AllDims[4],
                                  AllDims[5], p, NextDraw(AllDraw))
          /\ disc = NewDiscriminator(AllDims[1], 1, p, AllDraw)
    /\ \E n \in 1..MaxN : Inputs(n, AllDims[1], DiscXCoefs, DiscAdjKinds)

Next ==
    \/ GCNCall
    \/ TeacherCall
    \/ StudentCall
    \/ DiscriminatorCall
    \/ TeacherTrain
    \/ StudentTrain
    \/ DiscriminatorTrain

Spec == Init /\ [][Next]_vars

(***************************************************************************)
(* The claims.                                                             *)
(***************************************************************************)
RECURSIVE SumSeq(_)
SumSeq(q) == IF q = <<>> THEN 0 ELSE Head(q) + SumSeq(Tail(q))

\* entry (i, j) of the exact product P * Q
Entry(P, Q, i, j) == SumSeq([l \in 1..Rows(Q) |-> P[i][l] * Q[l][j]])

\* the exact product P * Q
Product(P, Q) == [i \in 1..Rows(P) |-> [j \in 1..Cols(Q) |-> Entry(P, Q, i, j)]]

IsZero(M) == \A i \in 1..Rows(M) : \A j \in 1..Cols(M) : M[i][j] = 0

GCNCalled == ret.op = "GCN.forward"
ValidGCNInput ==
    Cols(x) = gcn.in_features /\ Rows(adj) = Rows(x) /\ Cols(adj) = Rows(x)

\* C1: on an input X (N x Fin) and A (N x N), GCN.forward returns the N x Fout
\* matrix A * (X * W), with b added to every row when the layer has a bias: the
\* support it computes first is X * W, and the result is A times that support.
C1_ForwardIsAXWPlusB ==
    (GCNCalled /\ ValidGCNInput) =>
        /\ ret.res.ok
        /\ ret.res.support = Product(x, gcn.weight)
        /\ Rows(ret.res.val) = Rows(x)
        /\ \A i \in 1..Rows(x) :
              /\ Len(ret.res.val[i]) = gcn.out_features
              /\ \A j \in 1..gcn.out_features :
                    ret.res.val[i][j] =
                        IF gcn.bias # NoBias
                        THEN Fl(Entry(adj, Product(x, gcn.weight), i, j) + gcn.bias[j])
                        ELSE Entry(adj, Product(x, gcn.weight), i, j)

\* a biased layer called with two nodes, an asymmetric adjacency and a result that
\* differs from the support
C1_Witness ==
    /\ GCNCalled /\ ValidGCNInput /\ ret.res.ok
    /\ gcn.bias # NoBias
    /\ Rows(x) >= 2 /\ adj[1][2] # adj[2][1]
    /\ gcn.in_features >= 2 /\ gcn.out_features >= 2
    /\ ~IsZero(ret.res.support)
    /\ ret.res.val # ret.res.support

\* the layer GCN(in_features, out_features, bias=False) holding the same weight
Unbiased(layer) == [layer EXCEPT !.bias = NoBias]

BiasedCall == GCNCalled /\ ret.res.ok /\ gcn.bias # NoBias

TeacherCalled == ret.op = "Teacher.forward"
StudentCalled == ret.op = "Student.forward"
\* the network the last call ran on, in the mode it was in during the call
NetCalled == SetTraining(IF TeacherCalled THEN teacher ELSE student, ret.training)
ValidNetInput(net) ==
    Cols(x) = net.encoder.gc1.in_features /\ Rows(adj) = Rows(x) /\ Cols(adj) = Rows(x)

\* the constructor arguments (nfeat, nhid1, nhid2, nhid3, nhid4) a network was built with
BuiltWith(net, dm) ==
    \E p \in DropRates, d \in NetDraws :
        \/ net = SetTraining(NewTeacher(dm[1], dm[2], dm[3], dm[4], dm[5], p, d), net.training)
        \/ net = SetTraining(NewStudent(dm[1], dm[2], dm[3], dm[4], dm[5], p, d), net.training)

LayersChain(net) ==
    /\ \A g \in {net.encoder.gc1, net.encoder.gc2, net.decoder.gc1, net.decoder.gc2} :
          Rows(g.weight) = g.in_features /\ Cols(g.weight) = g.out_features
                                         /\ Len(g.bias) = g.out_features
    /\ net.encoder.gc1.out_features = net.encoder.gc2.in_features
    /\ net.encoder.gc2.out_features = net.decoder.gc1.in_features
    /\ net.decoder.gc1.out_features = net.decoder.gc2.in_features

\* C4: in a Teacher or Student built with (nfeat, nhid1, nhid2, nhid3, nhid4) the
\* layer dimensions chain, and on X (N x nfeat), A (N x N) forward does not raise:
\* the embedding is N x nhid2 and the decoded matrix N x nhid4.
C4_OutputShapes ==
    (TeacherCalled \/ StudentCalled) =>
        \A dm \in NetDims :
            (BuiltWith(NetCalled, dm) /\ ValidNetInput(NetCalled)) =>
                /\ LayersChain(NetCalled)
                /\ ret.res.ok
                /\ Rows(ret.res.emb) = Rows(x)
                /\ \A i \in 1..Rows(x) : Len(ret.res.emb[i]) = dm[3]
                /\ Rows(ret.res.out) = Rows(x)
                /\ \A i \in 1..Rows(x) : Len(ret.res.out[i]) = dm[5]

\* a student built with nhid3 # nhid4 and nhid2 # nhid4, called on at least two nodes
C4_Witness ==
    /\ StudentCalled /\ ValidNetInput(student) /\ ret.res.ok
    /\ Rows(x) >= 2
    /\ \E dm \in NetDims : BuiltWith(student, dm) /\ dm[4] # dm[5] /\ dm[3] # dm[5]

\* relu(gc2(relu(gc1(v, a)), a)): the two layers with no dropout between them
TwoLayers(m, v, a) == Relu(GCNforward(m.gc2, Relu(GCNforward(m.gc1, v, a).val), a).val)

\* C5: with the training flag off, GCNencoder.forward and GCNdecoder.forward are
\* relu(gc2(relu(gc1(X, A)), A)) whatever the dropout rate: dropout is the identity.
C5_NoDropoutInEval ==
    ((TeacherCalled \/ StudentCalled) /\ ValidNetInput(NetCalled)) =>
        /\ ~NetCalled.encoder.training =>
              ret.res.emb = TwoLayers(NetCalled.encoder, x, adj)
        /\ ~NetCalled.decoder.training =>
              ret.res.out = TwoLayers(NetCalled.decoder, ret.res.emb, adj)

\* an inference-mode call on a network with a dropout rate above 0 that returns a
\* non-zero embedding and a non-zero decoded matrix
C5_Witness ==
    /\ TeacherCalled /\ ValidNetInput(teacher) /\ ret.res.ok
    /\ ~ret.training
    /\ teacher.encoder.dropout > 0
    /\ ~IsZero(ret.res.emb) /\ ~IsZero(ret.res.out)

\* what forward returns when the encoder's and the decoder's forward are run in turn
EncodeThenDecode(net, s) ==
    LET e == GCNencoderForward(net.encoder, x, adj, s)
    IN  IF ~e.ok THEN ~ret.res.ok
        ELSE LET dcd == GCNdecoderForward(net.decoder, e.val, adj, e.rng)
             IN  /\ ret.res.ok = dcd.ok
                 /\ dcd.ok => (ret.res.emb = e.val /\ ret.res.out = dcd.val)

\* C6: Teacher.forward and Student.forward return (embedding, output) where
\* embedding is the encoder's result on (X, A) and output is the decoder's result
\* on (embedding, A).
C6_EncoderThenDecoder ==
    (TeacherCalled \/ StudentCalled) => EncodeThenDecode(NetCalled, ret.rng0)

\* a training-mode call that dropped some activations and returned an embedding
\* other than x and a non-zero decoded matrix
C6_Witness ==
    /\ TeacherCalled /\ ret.res.ok
    /\ ret.training /\ teacher.encoder.dropout > 0
    /\ ret.res.emb # x
    /\ ret.res.emb # TwoLayers(teacher.encoder, x, adj)
    /\ ~IsZero(ret.res.out)

ParamsOf(net) ==
    <<net.encoder.gc1.weight, net.encoder.gc1.bias, net.encoder.gc2.weight,
      net.encoder.gc2.bias, net.decoder.gc1.weight, net.decoder.gc1.bias,
      net.decoder.gc2.weight, net.decoder.gc2.bias>>

DropoutOff(net) ==
    /\ ~net.encoder.training \/ net.encoder.dropout = 0
    /\ ~net.decoder.training \/ net.decoder.dropout = 0

\* C7: a Teacher and a Student that hold the same weights and biases, with dropout
\* off, return the same (embedding, output) pair on the same (X, A).
C7_TeacherEqualsStudent ==
    /\ (TeacherCalled /\ ParamsOf(teacher) = ParamsOf(student)
           /\ DropoutOff(NetCalled) /\ DropoutOff(student)) =>
          ret.res = StudentForward(student, x, adj, ret.rng0)
    /\ (StudentCalled /\ ParamsOf(teacher) = ParamsOf(student)
           /\ DropoutOff(NetCalled) /\ DropoutOff(teacher)) =>
          ret.res = TeacherForward(teacher, x, adj, ret.rng0)

\* equal parameters, both networks in inference mode, a non-zero result
C7_Witness ==
    /\ StudentCalled /\ ret.res.ok
    /\ ParamsOf(teacher) = ParamsOf(student)
    /\ ~ret.training /\ ~teacher.training
    /\ student.encoder.dropout > 0
    /\ ~IsZero(ret.res.emb) /\ ~IsZero(ret.res.out)
    /\ ret.res.emb # ret.res.out

\* a network without its training flags: its layers and its dropout rates
Configured(net) == SetTraining(net, TRUE)

\* C9: no forward call, in training or inference mode, changes a weight, a bias,
\* in_features, out_features or a dropout rate, and a layer without bias stays so.
C9_ForwardKeepsParameters ==
    [][/\ gcn' = gcn
       /\ Configured(teacher') = Configured(teacher)
       /\ Configured(student') = Configured(student)
       /\ [disc' EXCEPT !.training = TRUE] = [disc EXCEPT !.training = TRUE]]_vars

\* a bias-free layer, a teacher switched to inference mode, and a discriminator
\* that has just run in training mode
C9_Witness ==
    /\ ret.op = "Discriminator.forward" /\ ret.res.ok
    /\ ret.training /\ disc.dropout > 0
    /\ ~teacher.training
    /\ gcn.bias = NoBias

DiscCalled == ret.op = "Discriminator.forward"
ValidDiscInput ==
    Cols(x) = disc.gc1.in_features /\ Rows(adj) = Rows(x) /\ Cols(adj) = Rows(x)

\* C10: the Discriminator chains input_size -> 32 -> 16 -> output_size; on a valid
\* input forward returns two vectors of length N when output_size = 1 and raises
\* when output_size is anything else.
C10_ViewNeedsOneOutput ==
    (DiscCalled /\ ValidDiscInput) =>
        /\ disc.gc1.out_features = Hidden1 /\ Cols(disc.gc1.weight) = Hidden1
        /\ disc.gc2.in_features = Hidden1 /\ Rows(disc.gc2.weight) = Hidden1
        /\ disc.gc2.out_features = Hidden2 /\ Cols(disc.gc2.weight) = Hidden2
        /\ disc.gc3.in_features = Hidden2 /\ Rows(disc.gc3.weight) = Hidden2
        /\ ret.res.ok <=> (disc.gc3.out_features = 1)
        /\ ret.res.ok => (Len(ret.res.sig) = Rows(x) /\ Len(ret.res.soft) = Rows(x))

\* a discriminator with two outputs per node, called on a valid input, that raised
C10_Witness ==
    /\ DiscCalled /\ ValidDiscInput
    /\ disc.gc3.out_features = 2
    /\ Rows(x) >= 2
    /\ ~ret.res.ok

====
